---- MODULE Spec2Model ----
(***************************************************************************)
(* topik input layer: the readers of topik/readers.py and the source       *)
(* resolver read_input of topik/fileio/reader.py.                          *)
(*                                                                         *)
(* Python values are records [t, s, d]: t is the type, s the text of a     *)
(* str, d the items of a dict as a set of <<key, value>> pairs.  An        *)
(* operation that can raise returns [exc, val], exc = "none" on success.   *)
(***************************************************************************)
EXTENDS Integers, Sequences, FiniteSets, TLC

\* ---------------------------------------------------------------- bounds
MaxLines == 3
MaxEvents == 3
MaxDirs == 2
MaxHits == 2
MaxPages == 1
MaxDocs == 2
MaxRounds == 6
MaxBatches == 6
MaxSamples == 3
MaxBatchSize == 2

\* error_prints < 10
MaxErrorPrints == 10

\* ---------------------------------------------------------- Python values
PyNone == [t |-> "none", s |-> "", d |-> {}]
PyStr(x) == [t |-> "str", s |-> x, d |-> {}]
PyInt(x) == [t |-> "int", s |-> x, d |-> {}]
PyDict(items) == [t |-> "dict", s |-> "", d |-> items]

Ok(v) == [exc |-> "none", val |-> v]
Raise(e) == [exc |-> e, val |-> PyNone]

\* v[k]: KeyError on a dict without the key, TypeError on a value that
\* cannot be indexed by a str key (None, int, str)
getitem(v, k) ==
  IF v.t = "dict"
  THEN IF \E kv \in v.d : kv[1] = k
       THEN Ok((CHOOSE kv \in v.d : kv[1] = k)[2])
       ELSE Raise("KeyError")
  ELSE Raise("TypeError")

\* v.get(k): None for a dict without the key, AttributeError on a value
\* that is no dict
dict_get(v, k) ==
  IF v.t = "dict"
  THEN IF \E kv \in v.d : kv[1] = k
       THEN Ok((CHOOSE kv \in v.d : kv[1] = k)[2])
       ELSE Ok(PyNone)
  ELSE Raise("AttributeError")

\* the field names the callers pass
Field == "text"
Subfield == "body"

\* ------------------------------------------------------- source strings
\* A source is a sequence of characters.
contains(p, pat) ==
  \E i \in 1..(Len(p) - Len(pat) + 1) : SubSeq(p, i, i + Len(pat) - 1) = pat

rfind(p, c) ==
  IF \E i \in 1..Len(p) : p[i] = c
  THEN CHOOSE i \in 1..Len(p) : p[i] = c /\ \A j \in (i+1)..Len(p) : p[j] # c
  ELSE 0

\* os.path.splitext(p)[1]: the text from the last dot on, when that dot
\* comes after the last separator and after a character of the file name
\* that is not a dot
splitext1(p) ==
  LET sepIndex == rfind(p, "/")
      dotIndex == rfind(p, ".")
  IN IF dotIndex > sepIndex /\ \E k \in (sepIndex+1)..(dotIndex-1) : p[k] # "."
     THEN SubSeq(p, dotIndex, Len(p))
     ELSE <<>>

json_extensions == {<<".", "j", "s">>, <<".", "j", "s", "o", "n">>}
Port8983 == <<"8", "9", "8", "3">>
Port9200 == <<"9", "2", "0", "0">>

Sources ==
  { <<"h", ":", "8", "9", "8", "3">>,
    <<"h", ":", "9", "2", "0", "0">>,
    <<"h", ":", "9", "2", "0", "0", "/", "a", ".", "j", "s", "o", "n">>,
    <<"8", "9", "8", "3", "/", "9", "2", "0", "0">>,
    <<"8", "9", "8", "3", ".", "j", "s">>,
    <<"a", ".", "j", "s", "o", "n">>,
    <<"d", "/", "a", ".", "j", "s">>,
    <<"d", "/", "a">>,
    <<"d", ".", "x", "/", "a">>,
    <<".", "j", "s", "o", "n">>,
    <<"a", ".", "t", "x", "t">>,
    <<"a", ".", "j", "s", "o", "n", "l">> }

SourceTypes ==
  {"auto", "solr", "elastic", "json_stream", "large_json", "folder", "csv"}

\* ------------------------------------------------------ JSON-lines files
\* A line is [ok, v]: ok says whether json.loads accepts the text, v is the
\* value it returns.
BadLine == [ok |-> FALSE, v |-> PyNone]
Lines ==
  { BadLine,
    [ok |-> TRUE, v |-> PyDict({<<"text", PyStr("a")>>})],
    [ok |-> TRUE, v |-> PyDict({<<"text", PyStr("b")>>, <<"id", PyStr("2")>>})],
    [ok |-> TRUE, v |-> PyDict({<<"id", PyStr("3")>>})],
    [ok |-> TRUE, v |-> PyInt("42")] }

SeqsUpTo(S, n) == UNION { [1..k -> S] : k \in 0..n }

Files == SeqsUpTo(Lines, MaxLines)

json_loads(line) == IF line.ok THEN Ok(line.v) ELSE Raise("ValueError")

\* --------------------------------------------------- large JSON documents
\* What ijson.parse produces for the document: (prefix, event, value).
prefix_value == "item.content"
event_value == "string"
ParseEvents ==
  { [prefix |-> "item.content", event |-> "string", value |-> PyStr("a")],
    [prefix |-> "item.content", event |-> "string", value |-> PyStr("b")],
    [prefix |-> "item.content", event |-> "null", value |-> PyNone],
    [prefix |-> "item.id", event |-> "string", value |-> PyStr("7")] }

Parses == SeqsUpTo(ParseEvents, MaxEvents)

\* ---------------------------------------------------------------- folders
\* What os.walk produces: one [directory, files] per directory, every
\* directory once, every file name once in its directory.  A file has a name
\* and data: gzipped says whether the bytes are a gzip stream, utf8 whether
\* the (uncompressed) bytes decode as UTF-8.
NameA == <<"a">>
NameGz == <<"b", ".", "g", "z">>
DirEntries ==
  { [name |-> NameA, gzipped |-> FALSE, utf8 |-> TRUE],
    [name |-> NameA, gzipped |-> FALSE, utf8 |-> FALSE],
    [name |-> NameGz, gzipped |-> TRUE, utf8 |-> TRUE],
    [name |-> NameGz, gzipped |-> FALSE, utf8 |-> TRUE] }

Injective(q) == \A a, b \in 1..Len(q) : a # b => q[a] # q[b]

FileLists ==
  { q \in SeqsUpTo(DirEntries, Cardinality({NameA, NameGz})) :
      Injective([k \in 1..Len(q) |-> q[k].name]) }

Walks ==
  UNION { { [k \in 1..n |-> [directory |-> order[k], files |-> lists[k]]] :
              order \in { o \in [1..n -> 1..MaxDirs] : Injective(o) },
              lists \in [1..n -> FileLists] } :
          n \in 0..MaxDirs }

\* ------------------------------------------------------- the remote store
\* A hit is [_id, _source].
Hits ==
  { [_id |-> "1", _source |-> PyDict({<<"text", PyDict({<<"body", PyStr("a")>>})>>})],
    [_id |-> "2", _source |-> PyDict({<<"id", PyStr("2")>>})],
    [_id |-> "3", _source |-> PyDict({<<"text", PyNone>>})] }

Pages == SeqsUpTo(Hits, MaxHits)

\* a scroll over the index: its pages in order
Stores == SeqsUpTo(Pages, MaxPages)

\* the index the random-sample reader draws from
Indexes == SeqsUpTo(Hits, MaxDocs)

NoScroll == "None"
NoResp == [_scroll_id |-> NoScroll, hits |-> <<>>]

VARIABLES
  source,         \* read_input: the source string; readers: the file name
  source_type,    \* read_input: the kind asked for
  file,           \* the lines of the file at source
  parse,          \* the parse events of the large JSON document
  walk,           \* the folder as os.walk lists it
  store,          \* full scroll: the pages the store holds
  cursor,         \* full scroll: whether the store's responses carry a cursor
  index,          \* random sample: the documents of the index
  subfield,       \* "None" or the subfield asked for
  include_id,
  n_samples,
  batch_size,
  branch,         \* read_input: the registered input it called first
  data_iterator,  \* the generator in the caller's hands
  pc,             \* remote readers: where the generator body stands
  resp,           \* remote readers: the response being iterated
  i,              \* remote readers: the next hit of resp, from 1
  error_prints,
  sampled,
  requests,       \* remote readers: requests sent to the store
  rounds,         \* full scroll: passes of the while loop begun
  yielded,        \* what the caller has pulled so far
  warnings,       \* calls of logging.warning so far
  raised          \* the exception that reached the caller, "none" if none

inputs == <<source, source_type, file, parse, walk, store, cursor, index,
            subfield, include_id, n_samples, batch_size>>
remote == <<pc, resp, i, error_prints, sampled, requests, rounds>>
vars == <<inputs, remote, branch, data_iterator, yielded, warnings, raised>>

\* ----------------------------------------------------------- generators
NoIterator == [reader |-> "None", n |-> 0, state |-> "closed"]
Generator(reader) == [reader |-> reader, n |-> 0, state |-> "suspended"]

\* "%s/%s[%d]" % (filename, field, n)
JsonIdNoIndex(filename, field, n) == <<filename, field, 0>>
JsonId(filename, field, n) == <<filename, field, n>>

\* The body of iter_document_json_stream resumed before line n (zero-based)
\* with w warnings logged since it was resumed: runs to the next yield, to
\* the end of the file, or to an exception no handler of the body catches.
RECURSIVE iter_document_json_stream(_, _, _, _)
iter_document_json_stream(filename, f, n, w) ==
  IF n >= Len(f)
  THEN [out |-> "StopIteration", item |-> <<>>, n |-> n, warned |-> w]
  ELSE LET dictionary == json_loads(f[n + 1])
           content == dict_get(dictionary.val, Field)
       IN IF dictionary.exc = "ValueError"
          THEN iter_document_json_stream(filename, f, n + 1, w + 1)
          ELSE IF content.exc # "none"
          THEN [out |-> content.exc, item |-> <<>>, n |-> n, warned |-> w]
          ELSE [out |-> "yield",
                item |-> <<JsonId(filename, Field, n), content.val>>,
                n |-> n + 1, warned |-> w]

\* The body of iter_large_json resumed before parse event n (zero-based).
RECURSIVE iter_large_json(_, _)
iter_large_json(parser, n) ==
  IF n >= Len(parser)
  THEN [out |-> "StopIteration", item |-> <<>>, n |-> n, warned |-> 0]
  ELSE LET e == parser[n + 1]
       IN IF <<e.prefix, e.event>> = <<prefix_value, event_value>>
          THEN [out |-> "yield", item |-> <<<<e.prefix, e.event>>, e.value>>,
                n |-> n + 1, warned |-> 0]
          ELSE iter_large_json(parser, n + 1)

\* file.endswith('.gz')
endswith_gz(name) ==
  Len(name) >= 3 /\ SubSeq(name, Len(name) - 2, Len(name)) = <<".", "g", "z">>

\* _open(fullpath, 'rb').read().decode('utf-8'): gzip.open fails on bytes
\* that are no gzip stream with an IOError; bytes of a gzip stream read by
\* open, and bytes that are not UTF-8, fail to decode
read_decode(entry) ==
  IF endswith_gz(entry.name)
  THEN IF ~entry.gzipped THEN Raise("IOError")
       ELSE IF entry.utf8 THEN Ok(PyStr("t")) ELSE Raise("UnicodeDecodeError")
  ELSE IF entry.gzipped \/ ~entry.utf8 THEN Raise("UnicodeDecodeError")
       ELSE Ok(PyStr("t"))

\* os.path.join(directory, file)
fullpath(directory, name) == <<directory, name>>

\* the files of a walk in the order of the two nested loops
RECURSIVE Flatten(_)
Flatten(w) ==
  IF w = <<>> THEN <<>>
  ELSE [k \in 1..Len(w[1].files) |->
          [directory |-> w[1].directory, entry |-> w[1].files[k]]]
       \o Flatten(Tail(w))

\* The body of iter_documents_folder resumed before file n (zero-based) of
\* the walk, with w warnings logged since it was resumed.
RECURSIVE iter_documents_folder(_, _, _)
iter_documents_folder(files, n, w) ==
  IF n >= Len(files)
  THEN [out |-> "StopIteration", item |-> <<>>, n |-> n, warned |-> w]
  ELSE LET f == files[n + 1]
           text == read_decode(f.entry)
       IN IF text.exc \in {"ValueError", "UnicodeDecodeError"}
          THEN iter_documents_folder(files, n + 1, w + 1)
          ELSE IF text.exc # "none"
          THEN [out |-> text.exc, item |-> <<>>, n |-> n, warned |-> w]
          ELSE [out |-> "yield",
                item |-> <<fullpath(f.directory, f.entry.name), text.val>>,
                n |-> n + 1, warned |-> w]

\* next() on the generator g
resume(g) ==
  CASE g.reader = "iter_document_json_stream" ->
         iter_document_json_stream(source, file, g.n, 0)
    [] g.reader = "iter_large_json" -> iter_large_json(parse, g.n)
    [] g.reader = "iter_documents_folder" ->
         iter_documents_folder(Flatten(walk), g.n, 0)

\* what the caller sees of one next(): an element, the end, or an exception
Pull(g) ==
  LET r == resume(g)
  IN /\ warnings' = warnings + r.warned
     /\ IF r.out = "yield"
        THEN /\ yielded' = Append(yielded, r.item)
             /\ data_iterator' = [g EXCEPT !.n = r.n]
             /\ raised' = raised
        ELSE /\ yielded' = yielded
             /\ data_iterator' = [g EXCEPT !.n = r.n, !.state = "closed"]
             /\ raised' = IF r.out = "StopIteration" THEN raised ELSE r.out
     /\ UNCHANGED <<inputs, remote, branch>>

NextJsonStream ==
  /\ data_iterator.state = "suspended"
  /\ data_iterator.reader = "iter_document_json_stream"
  /\ Pull(data_iterator)

NextLargeJson ==
  /\ data_iterator.state = "suspended"
  /\ data_iterator.reader = "iter_large_json"
  /\ Pull(data_iterator)

NextDocumentsFolder ==
  /\ data_iterator.state = "suspended"
  /\ data_iterator.reader = "iter_documents_folder"
  /\ Pull(data_iterator)

\* ------------------------------------------------------------ read_input
\* The registry of topik.fileio: the reader each registered input names.
registered_inputs(name) ==
  CASE name = "read_solr" -> "iter_solr_query"
    [] name = "read_elastic" -> "iter_elastic_query"
    [] name = "read_json_stream" -> "iter_document_json_stream"
    [] name = "read_large_json" -> "iter_large_json"
    [] name = "read_document_folder" -> "iter_documents_folder"

\* the if/elif chain of read_input: the registered input it calls first,
\* or "ValueError" for the else branch
ElasticFirst(src, st) ==
  IF (st = "auto" /\ contains(src, Port9200)) \/ st = "elastic"
    THEN "read_elastic"
  ELSE IF (st = "auto" /\ contains(src, Port8983)) \/ st = "solr"
    THEN "read_solr"
  ELSE IF (st = "auto" /\ splitext1(src) \in json_extensions) \/ st = "json_stream"
    THEN "read_json_stream"
  ELSE IF st = "large_json"
    THEN "read_large_json"
  ELSE IF (st = "auto" /\ splitext1(src) = <<>>) \/ st = "folder"
    THEN "read_document_folder"
  ELSE "ValueError"

read_input_branch(src, st) ==
  IF (st = "auto" /\ contains(src, Port8983)) \/ st = "solr"
    THEN "read_solr"
  ELSE IF (st = "auto" /\ contains(src, Port9200)) \/ st = "elastic"
    THEN "read_elastic"
  ELSE IF (st = "auto" /\ splitext1(src) \in json_extensions) \/ st = "json_stream"
    THEN "read_json_stream"
  ELSE IF st = "large_json"
    THEN "read_large_json"
  ELSE IF (st = "auto" /\ splitext1(src) = <<>>) \/ st = "folder"
    THEN "read_document_folder"
  ELSE "ValueError"

\* next(itertools.tee(data_iterator)[0]) on a new generator: it runs the
\* generator to its first yield
probe(g) == resume(g)

read_input ==
  /\ branch = "none"
  /\ branch' = read_input_branch(source, source_type)
  /\ IF branch' = "ValueError"
     THEN /\ raised' = "ValueError: Unrecognized source type"
          /\ UNCHANGED <<data_iterator, warnings>>
     ELSE IF branch' = "read_json_stream"
     THEN LET first == probe(Generator(registered_inputs("read_json_stream")))
          IN /\ warnings' = warnings + first.warned
             /\ IF first.out = "yield"
                THEN /\ data_iterator' = Generator(registered_inputs("read_json_stream"))
                     /\ raised' = raised
                ELSE IF first.out = "ValueError"
                THEN /\ data_iterator' = Generator(registered_inputs("read_large_json"))
                     /\ raised' = raised
                ELSE /\ data_iterator' = data_iterator
                     /\ raised' = first.out
     ELSE /\ data_iterator' = Generator(registered_inputs(branch'))
          /\ UNCHANGED <<warnings, raised>>
  /\ UNCHANGED <<inputs, remote, yielded>>

\* --------------------------------------------------------- remote readers
\* lines 110-117 and 155-162: the tuple built from a hit; the name is
\* "%s/%s" % (field, subfield) or field
extract(hit, sf, inc) ==
  LET s == hit._source
      a == getitem(s, Field)
      v == IF sf # "None"
           THEN IF a.exc # "none" THEN a ELSE getitem(a.val, sf)
           ELSE a
      name == IF sf # "None" THEN <<Field, sf>> ELSE <<Field>>
  IN IF v.exc # "none" THEN v
     ELSE Ok(IF inc THEN <<hit._id, name, v.val>> ELSE <<name, v.val>>)

\* except (ValueError, KeyError)
caught(exc) == exc \in {"ValueError", "KeyError"}

\* one pass of the body of `for hit in resp['hits']['hits']`
Hit(counts) ==
  LET tup == extract(resp.hits[i], subfield, include_id)
  IN /\ i' = i + 1
     /\ IF tup.exc = "none"
        THEN /\ yielded' = Append(yielded, tup.val)
             /\ sampled' = IF counts THEN sampled + 1 ELSE sampled
             /\ UNCHANGED <<error_prints, warnings, raised, pc>>
        ELSE IF caught(tup.exc)
        THEN /\ IF error_prints < MaxErrorPrints
                THEN /\ error_prints' = error_prints + 1
                     /\ warnings' = warnings + 1
                ELSE UNCHANGED <<error_prints, warnings>>
             /\ UNCHANGED <<yielded, sampled, raised, pc>>
        ELSE /\ raised' = tup.exc
             /\ pc' = "raised"
             /\ UNCHANGED <<yielded, sampled, error_prints, warnings>>
     /\ UNCHANGED <<inputs, resp, requests, rounds, branch, data_iterator>>

\* es.search(index, body=match_all, scroll='5m'): the first page of the scroll
es_search_scroll ==
  [_scroll_id |-> IF cursor THEN "c1" ELSE NoScroll,
   hits |-> IF store = <<>> THEN <<>> ELSE store[1]]

\* scroll_id is None (line 103)
IgnoreNoScroll(r) == FALSE
no_scroll(r) == r._scroll_id = NoScroll

ElasticSearch ==
  /\ pc = "start"
  /\ resp' = es_search_scroll
  /\ requests' = requests + 1
  /\ IF no_scroll(resp')
     THEN pc' = "done" /\ UNCHANGED <<i, rounds>>
     ELSE pc' = "for" /\ i' = 1 /\ rounds' = 1
  /\ UNCHANGED <<inputs, error_prints, sampled, branch, data_iterator,
                 yielded, warnings, raised>>

ElasticHit ==
  /\ pc = "for"
  /\ i <= Len(resp.hits)
  /\ Hit(FALSE)

\* lines 125-128: the end of the for loop and the end-of-scroll test
ElasticEndOfPage ==
  /\ pc = "for"
  /\ i > Len(resp.hits)
  /\ IF no_scroll(resp) \/ resp.hits = <<>>
     THEN pc' = "done" /\ UNCHANGED <<i, rounds>>
     ELSE rounds < MaxRounds /\ pc' = "for" /\ i' = 1 /\ rounds' = rounds + 1
  /\ UNCHANGED <<inputs, resp, error_prints, sampled, requests, branch,
                 data_iterator, yielded, warnings, raised>>

\* es.count(index=index, doc_type=doc_type)['count']
full_doc_count == Len(index)

random_in_range(r) ==
  IF r < 0 THEN [r |-> 0, siz |-> batch_size + r] ELSE [r |-> r, siz |-> batch_size]

Min(a, b) == IF a < b THEN a ELSE b

\* es.search(..., from_=r, size=siz): the store answers with at most siz
\* documents, those from offset r on
new_search(r) ==
  LET w == random_in_range(r)
  IN [_scroll_id |-> NoScroll,
      hits |-> SubSeq(index, w.r + 1, Min(w.r + w.siz, Len(index)))]

\* sampled < n_samples (line 152)
StopOneShort(s, n) == s + 1 < n
sample_more(s, n) == s < n

RandomWhile ==
  /\ pc = "while"
  /\ IF sample_more(sampled, n_samples)
     THEN /\ requests < MaxBatches
          /\ \E r \in 0..full_doc_count : resp' = new_search(r)
          /\ requests' = requests + 1
          /\ i' = 1
          /\ pc' = "for"
     ELSE pc' = "done" /\ UNCHANGED <<resp, requests, i>>
  /\ UNCHANGED <<inputs, error_prints, sampled, rounds, branch, data_iterator,
                 yielded, warnings, raised>>

RandomHit ==
  /\ pc = "for"
  /\ i <= Len(resp.hits)
  /\ Hit(TRUE)

RandomEndOfBatch ==
  /\ pc = "for"
  /\ i > Len(resp.hits)
  /\ pc' = "while"
  /\ UNCHANGED <<inputs, resp, i, error_prints, sampled, requests, rounds,
                 branch, data_iterator, yielded, warnings, raised>>

\* -------------------------------------------------------- specifications
FileName == <<"a", ".", "j", "s", "o", "n">>

Idle ==
  /\ pc = "idle" /\ resp = NoResp /\ i = 1 /\ error_prints = 0
  /\ sampled = 0 /\ requests = 0 /\ rounds = 0

NoRemoteInputs ==
  /\ store = <<>> /\ cursor = FALSE /\ index = <<>> /\ subfield = "None"
  /\ include_id = FALSE /\ n_samples = 0 /\ batch_size = 0

NoOutput == yielded = <<>> /\ warnings = 0 /\ raised = "none"

\* read_input on a source of a kind, and the caller pulling the elements of
\* the JSON-lines reader it returned; the file at source exists and holds
\* the lines of file
InitResolver ==
  /\ source \in Sources /\ source_type \in SourceTypes /\ file \in Files
  /\ parse = <<>> /\ walk = <<>> /\ NoRemoteInputs /\ Idle /\ NoOutput
  /\ branch = "none" /\ data_iterator = NoIterator

NextResolver == read_input \/ NextJsonStream

SpecResolver == InitResolver /\ [][NextResolver]_vars

\* a stream reader called directly and pulled to its end
InitStream ==
  /\ source = FileName /\ source_type = "none"
  /\ \/ /\ data_iterator = Generator("iter_document_json_stream")
        /\ file \in Files /\ parse = <<>> /\ walk = <<>>
     \/ /\ data_iterator = Generator("iter_large_json")
        /\ file = <<>> /\ parse \in Parses /\ walk = <<>>
     \/ /\ data_iterator = Generator("iter_documents_folder")
        /\ file = <<>> /\ parse = <<>> /\ walk \in Walks
  /\ NoRemoteInputs /\ Idle /\ NoOutput /\ branch = "direct"

NextStream == NextJsonStream \/ NextLargeJson \/ NextDocumentsFolder

SpecStream == InitStream /\ [][NextStream]_vars

RemoteOptions ==
  /\ subfield \in {"None", Subfield} /\ include_id \in BOOLEAN
  /\ source = <<"h">> /\ source_type = "none" /\ file = <<>> /\ parse = <<>>
  /\ walk = <<>> /\ branch = "direct" /\ data_iterator = NoIterator
  /\ resp = NoResp /\ i = 1 /\ error_prints = 0 /\ sampled = 0
  /\ requests = 0 /\ rounds = 0 /\ NoOutput

\* iter_elastic_query pulled to its end
InitScroll ==
  /\ store \in Stores /\ cursor \in BOOLEAN /\ index = <<>>
  /\ n_samples = 0 /\ batch_size = 0
  /\ RemoteOptions /\ pc = "start"

NextScroll == ElasticSearch \/ ElasticHit \/ ElasticEndOfPage

SpecScroll == InitScroll /\ [][NextScroll]_vars

\* random_elastic_query pulled to its end
InitRandom ==
  /\ store = <<>> /\ cursor = FALSE /\ index \in Indexes
  /\ n_samples \in 1..MaxSamples /\ batch_size \in 1..MaxBatchSize
  /\ RemoteOptions /\ pc = "while"

NextRandom == RandomWhile \/ RandomHit \/ RandomEndOfBatch

SpecRandom == InitRandom /\ [][NextRandom]_vars

\* ------------------------------------------------------------- properties
IsPrefix(p, q) == Len(p) <= Len(q) /\ SubSeq(q, 1, Len(p)) = p

RECURSIVE Concat(_)
Concat(qs) == IF qs = <<>> THEN <<>> ELSE qs[1] \o Concat(Tail(qs))

\* the tuples of the hits of q whose extraction succeeds, in order
RECURSIVE Tuples(_)
Tuples(q) ==
  IF q = <<>> THEN <<>>
  ELSE LET t == extract(q[1], subfield, include_id)
       IN (IF t.exc = "none" THEN <<t.val>> ELSE <<>>) \o Tuples(Tail(q))

\* C1: in iter_elastic_query every pass over a page is a pass over a page
\* just requested from the store (after a page with a cursor and a hit the
\* next page is requested), so with a cursor the reader yields the hits of
\* the store's pages once each, in page order, and then ends.
C1_ScrollYieldsEachPageOnce ==
  /\ rounds <= requests
  /\ cursor => IsPrefix(yielded, Tuples(Concat(store)))
  /\ (cursor /\ pc = "done") => yielded = Tuples(Concat(store))

\* the outcome of the auto rules for a source, rule by rule
AutoRule(src) ==
  IF contains(src, Port8983) THEN "read_solr"
  ELSE IF contains(src, Port9200) THEN "read_elastic"
  ELSE IF splitext1(src) \in json_extensions THEN "read_json_stream"
  ELSE IF splitext1(src) = <<>> THEN "read_document_folder"
  ELSE "ValueError"

ExplicitKinds == {"solr", "elastic", "json_stream", "large_json", "folder"}

\* C2: once read_input has run, with source_type "auto" the input it chose
\* is the one the ordered rules 8983, 9200, .js/.json, no extension give,
\* the unrecognized-source error when none applies; a source_type that is
\* neither "auto" nor an explicit kind gives that error; and the error is
\* raised, with no reader returned, exactly when no input was chosen.
C2_AutoDispatchInRuleOrder ==
  branch # "none" =>
    /\ source_type = "auto" => branch = AutoRule(source)
    /\ source_type \notin ExplicitKinds \cup {"auto"} => branch = "ValueError"
    /\ branch \in {"read_solr", "read_elastic", "read_json_stream",
                   "read_large_json", "read_document_folder", "ValueError"}
    /\ (branch = "ValueError") <=> (raised = "ValueError: Unrecognized source type")
    /\ branch = "ValueError" => data_iterator = NoIterator

C2_Witness_9200BeforeJson ==
  /\ branch = "read_elastic" /\ source_type = "auto"
  /\ splitext1(source) \in json_extensions
  /\ data_iterator.reader = "iter_elastic_query"

\* every line is a JSON object
ValidJsonLines(f) == \A k \in 1..Len(f) : f[k].ok /\ f[k].v.t = "dict"

\* the records of a JSON-lines file of objects, line by line
ObjectRecords(f) ==
  [k \in 1..Len(f) |-> <<<<source, Field, k - 1>>, dict_get(f[k].v, Field).val>>]

\* C3: for a .js/.json source that read_input "auto" serves by the JSON
\* rule and whose file is valid JSON-lines, read_input returns the
\* JSON-lines reader and the caller pulls from it the records of the
\* JSON-lines reader called on that source, from document 0 on.
C3_ReadInputSameAsJsonStream ==
  (branch = "read_json_stream" /\ source_type = "auto" /\ ValidJsonLines(file)) =>
    /\ raised = "none"
    /\ data_iterator.reader = "iter_document_json_stream"
    /\ IsPrefix(yielded, ObjectRecords(file))
    /\ data_iterator.state = "closed" => yielded = ObjectRecords(file)

\* the identifiers (first elements) of the records pulled so far differ
UniqueIdentifiers ==
  \A a, b \in 1..Len(yielded) : a # b => yielded[a][1] # yielded[b][1]

\* C4 (as claimed): for every reader, no two records of one iteration have
\* the same identifier.
C4_EveryReaderUniqueIdentifiers == UniqueIdentifiers

\* C4 (amended): for the JSON-lines reader and the folder reader, no two
\* records of one iteration have the same identifier.
C4_JsonAndFolderUniqueIdentifiers ==
  data_iterator.reader \in {"iter_document_json_stream", "iter_documents_folder"}
    => UniqueIdentifiers

C4_Witness_TwoRecords ==
  /\ data_iterator.reader = "iter_document_json_stream"
  /\ data_iterator.state = "closed"
  /\ Len(yielded) >= 2

\* the zero-based numbers of the lines of f that parse as a JSON object
RECURSIVE ObjectLines(_, _)
ObjectLines(f, n) ==
  IF n >= Len(f) THEN <<>>
  ELSE (IF f[n + 1].ok /\ f[n + 1].v.t = "dict" THEN <<n>> ELSE <<>>)
       \o ObjectLines(f, n + 1)

\* C5: at the end of the JSON-lines reader's iteration the identifiers of
\* the records are those of the lines that parse as a JSON object, in file
\* order and numbered by line, and one warning was logged for each line
\* that failed to parse.
C5_OneRecordPerObjectLine ==
  (data_iterator.reader = "iter_document_json_stream" /\ data_iterator.state = "closed") =>
    /\ [k \in 1..Len(yielded) |-> yielded[k][1]]
         = [k \in 1..Len(ObjectLines(file, 0)) |->
              <<source, Field, ObjectLines(file, 0)[k]>>]
    /\ warnings = Cardinality({k \in 1..Len(file) : ~file[k].ok})

\* C6: no record pulled from a stream reader has content None.
C6_NoRecordWithoutContent ==
  \A k \in 1..Len(yielded) : yielded[k][Len(yielded[k])] # PyNone

\* C7: when random_elastic_query ends with batch_size < n_samples it has
\* yielded at least n_samples tuples, each counted, over at least
\* ceil(n_samples / batch_size) query batches.
C7_RandomSampleReachesTarget ==
  (pc = "done" /\ batch_size < n_samples) =>
    /\ Len(yielded) >= n_samples
    /\ sampled = Len(yielded)
    /\ requests * batch_size >= n_samples

C7_Witness_SeveralBatches ==
  /\ pc = "done" /\ batch_size < n_samples
  /\ requests > 2 /\ warnings > 0

\* C8: when read_input takes the JSON-lines branch on a file none of whose
\* lines parses, it returns the large-JSON reader.
C8_FallBackToLargeJson ==
  (branch = "read_json_stream" /\ file # <<>> /\ \A k \in 1..Len(file) : ~file[k].ok) =>
    /\ raised = "none"
    /\ data_iterator.reader = "iter_large_json"

\* C9: once the initial search has answered without a scroll cursor,
\* iter_elastic_query is done: nothing yielded, nothing logged, no error and
\* no request but the initial one.
C9_NoCursorEndsAtOnce ==
  (pc # "start" /\ ~cursor) =>
    /\ pc = "done"
    /\ yielded = <<>> /\ warnings = 0 /\ raised = "none"
    /\ requests = 1

C9_Witness_HitsWithoutCursor ==
  /\ pc = "done" /\ ~cursor /\ resp.hits # <<>>
  /\ \E k \in 1..Len(resp.hits) : extract(resp.hits[k], subfield, include_id).exc = "none"

\* C10: in random_elastic_query no hit's failed extraction ends the
\* sequence, at most 10 warnings are logged, and only yielded tuples count
\* towards the target.
C10_FailedHitsSkipped ==
  /\ pc # "raised" /\ raised = "none"
  /\ warnings <= MaxErrorPrints
  /\ sampled = Len(yielded)

====
